---- MODULE Spec2Model ----
(***************************************************************************)
(* Model of the ASG stimulus library: the Stimuli base class, the PureTone *)
(* generator and the Stim2Dac adapter (src/Source/Stimuli.cpp,             *)
(* src/Source/PureTone.cpp, src/Source/Stim2Dac.cpp,                       *)
(* src/Include/ASGMath.h).                                                 *)
(*                                                                         *)
(* Representation of the float32 fields:                                   *)
(*   - a float argument is a record [nan, v]: NaN, or the integer v (Hz);  *)
(*     the frequency fields, which never hold NaN, keep the integer;       *)
(*   - a phase is an integer number of angle units, TwoPi units making one *)
(*     full turn;                                                          *)
(*   - stepArgument_ is the pair <<num, den>> standing for the angle       *)
(*     2*pi*num/den, so that 2*pi*f/fs is kept exactly;                    *)
(*   - a sample is represented by the angle handed to sin(), reduced       *)
(*     modulo one turn, as the pair <<numerator, denominator>> of a turn.  *)
(* Rounding error of float32 arithmetic is not modelled in the generator.   *)
(* In the adapter a sample is the integer number of halves x*2 of a        *)
(* normalized value x, and every float32 operation of the quantization     *)
(* rounds to 24 significant bits (F32).                                    *)
(***************************************************************************)
EXTENDS Integers, Sequences, FiniteSets, TLC

\* ------------------------------------------------------------------ bounds
MaxSize == 3            \* largest size handed to generate; buffer capacity
MaxPosition == 3        \* largest position handed to setPosition
MaxPeriodArg == 2       \* largest argument handed to setPeriodeSize_samples
MaxRunCalls == 2        \* successive generate calls recorded in one run
MaxDacSize == 10        \* the long call handed to Stim2Dac::generate
MaxLcmArg == 12         \* largest argument of leastCommonMultiple

\* --------------------------------------------------------------- constants
MIN_GENERATABLE_FREQUENCY == 10
MAX_GENERATABLE_FREQUENCY == 20000
DEFAULT_TONE_FREQUENCY == 500
DEFAULT_SAMPLING_FREQUENCY == 1
TwoPi == 4              \* angle units in one full turn (2*ASG::PI)

DEFAULT_DAC_RESOLUTION == 24
INT32_MAX == 2147483647
MANTISSA_BITS == 24     \* significant bits of a float32
MANTISSA_LIMIT == 16777216  \* 2^MANTISSA_BITS

NaN == [nan |-> TRUE, v |-> 0]
Float(x) == [nan |-> FALSE, v |-> x]
Untouched == "untouched"

\* inputs the callers hand to the setters
ToneFrequencyInputs == {NaN} \cup {Float(x) : x \in {0, 10, 20, 30, 20000, 20001}}
SamplingFrequencyInputs == {NaN} \cup {Float(x) : x \in {-1, 0, 20, 60, 70}}
PhaseInputs == {-1, 4}
\* frequency fields of the parameter blocks handed to configure; 10 is the
\* default of PureToneParameters
ParameterFrequencies == {NaN, Float(10), Float(30)}

\* resolutions handed to setDacResolution
ResolutionInputs == {1, 2, 8, 16, 24, 25, 26, 31, 32, 33}
\* resolutions that pass every overload, the 32-bit ones only, and none
WidthResolutions == {8, 24, 33}
\* sizes handed to Stim2Dac::generate
DacSizes == {0, 1, 2, MaxDacSize}
\* values the caller's sync variable holds before Stim2Dac::generate
SyncInputs == {-1, 7}
\* the samples of the stub stimulus, in halves, by position in its cycle;
\* its synchronization mark is on position 0
StubWave == <<0, 1, 2, -1, -2>>
\* samples the stub stimulus is loaded with
Endless == -1           \* the load of a stub that never runs out
StubLoads == {0, 2, Endless}

VARIABLES
    toneFrequency_,         \* PureTone::toneFrequency_
    phase_,                 \* PureTone::phase_
    stepArgument_,          \* PureTone::stepArgument_
    periodSize_samples_,    \* PureTone::periodSize_samples_
    position_,              \* Stimuli::position_
    samplingFrequency_,     \* Stimuli::samplingFrequency_
    pc,                     \* "running", or "trapped" after a division trap
    op,                     \* the last operation called
    arg,                    \* its arguments
    ret,                    \* its return value
    sync,                   \* the caller's sync variable
    sampleBuffer,           \* the caller's buffer after the last generate
    pre,                    \* the object's fields before the last operation
    run,                    \* samples emitted by successive generate calls
    stimuli_,               \* Stim2Dac::stimuli_: "null", "tone" or "stub"
    dacResolution_,         \* Stim2Dac::dacResolution_
    dynamicRange_,          \* Stim2Dac::dynamicRange_
    dynamicRangeToScale_,   \* Stim2Dac::dynamicRangeToScale_
    dacOverflow,            \* the last setDacResolution overflowed int32
    stubPos,                \* the stub stimulus: position in its cycle
    stubLeft,               \* the stub stimulus: samples left, or Endless
    stubPre,                \* the stub stimulus before the last operation
    pulls,                  \* stimulus pulls made by the last operation
    dacBuffer,              \* the caller's buffer after Stim2Dac::generate
    lcm                     \* the activation of Stimuli::leastCommonMultiple

dacVars == <<stimuli_, dacResolution_, dynamicRange_, dynamicRangeToScale_,
             dacOverflow, stubPos, stubLeft, stubPre, pulls, dacBuffer>>

vars == <<toneFrequency_, phase_, stepArgument_, periodSize_samples_,
          position_, samplingFrequency_, pc, op, arg, ret, sync,
          sampleBuffer, pre, run, stimuli_, dacResolution_, dynamicRange_,
          dynamicRangeToScale_, dacOverflow, stubPos, stubLeft, stubPre,
          pulls, dacBuffer, lcm>>

\* everything but the activation of leastCommonMultiple
objectVars == <<toneFrequency_, phase_, stepArgument_, periodSize_samples_,
                position_, samplingFrequency_, pc, op, arg, ret, sync,
                sampleBuffer, pre, run, stimuli_, dacResolution_,
                dynamicRange_, dynamicRangeToScale_, dacOverflow, stubPos,
                stubLeft, stubPre, pulls, dacBuffer>>

fields == <<toneFrequency_, phase_, stepArgument_, periodSize_samples_,
            position_, samplingFrequency_>>

\* ------------------------------------------------------- float32 helpers
isnan(x) == x.nan

\* IEEE comparisons of a float with a constant: every ordered comparison
\* with NaN is false
FloatLessEq(a, b) == ~isnan(a) /\ a.v <= b
FloatGreaterEq(a, b) == ~isnan(a) /\ a.v >= b

\* std::ceil of the rational num/den, den > 0
Ceil(num, den) == -((-num) \div den)

\* ASG::round(x) = ceil(x - 0.5), x = num/den
round(num, den) == Ceil(2 * num - den, 2 * den)

\* std::fmod(radian, 2*PI): the remainder has the sign of the dividend
normalizeRadian(radian) ==
    IF radian >= 0 THEN radian % TwoPi ELSE -((-radian) % TwoPi)

\* seconds2samples(seconds, samplingFreq), seconds = secs[1]/secs[2]
seconds2samples(secs, samplingFreq) ==
    round(secs[1] * samplingFreq, secs[2])

\* PureTone::getPeriod_secs
getPeriod_secs(freq) == <<1, freq>>

\* the value PureTone::setStepArgument stores
StepArgumentOf(freq, samplingFreq) == <<freq, samplingFreq>>

\* ------------------------------------------------------------ bookkeeping
Snapshot == [toneFrequency |-> toneFrequency_, phase |-> phase_,
             stepArgument |-> stepArgument_,
             periodSize_samples |-> periodSize_samples_,
             position |-> position_,
             samplingFrequency |-> samplingFrequency_]

EmptyBuffer == [i \in 1..MaxSize |-> Untouched]

NewRun(pos) == [start |-> pos, calls |-> 0, emitted |-> <<>>]

\* a call that is not generate: records the call and ends the run of
\* successive generates; the caller then holds a fresh buffer and a fresh
\* sync variable for its next generate call
Called(name, a, r) ==
    /\ op' = name /\ arg' = a /\ ret' = r
    /\ pre' = Snapshot
    /\ run' = NewRun(position_')
    /\ sync' = 0
    /\ sampleBuffer' = EmptyBuffer
    /\ UNCHANGED pc
    /\ UNCHANGED <<dacVars, lcm>>

\* ------------------------------------------------------------------- Init
\* Stimuli::Stimuli and PureTone::PureTone
ToneInit ==
    /\ toneFrequency_ = DEFAULT_TONE_FREQUENCY
    /\ phase_ = 0
    /\ stepArgument_ = <<0, 1>>
    /\ periodSize_samples_ = 0
    /\ position_ = 0
    /\ samplingFrequency_ = DEFAULT_SAMPLING_FREQUENCY
    /\ pc = "running"
    /\ op = "construct" /\ arg = <<>> /\ ret = TRUE
    /\ sync = 0
    /\ sampleBuffer = EmptyBuffer
    /\ pre = [toneFrequency |-> DEFAULT_TONE_FREQUENCY, phase |-> 0,
              stepArgument |-> <<0, 1>>, periodSize_samples |-> 0,
              position |-> 0,
              samplingFrequency |-> DEFAULT_SAMPLING_FREQUENCY]
    /\ run = NewRun(0)

\* 2^e, 0 <= e <= 30
RECURSIVE Pow2(_)
Pow2(e) == IF e = 0 THEN 1 ELSE 2 * Pow2(e - 1)

DacUntouched == [tag |-> "untouched", v |-> 0]

EmptyDacBuffer == [i \in 1..MaxDacSize |-> DacUntouched]

\* the stub stimulus, as the adapter's bookkeeping records it
StubSnapshot == [stubPos |-> stubPos, stubLeft |-> stubLeft]

\* Stim2Dac::Stim2Dac(stimuli) with the default resolution, whose
\* setDacResolution(24) stores 2^24 and 2^24/2 - 1
DacInit(stimuli, left) ==
    /\ stimuli_ = stimuli
    /\ dacResolution_ = DEFAULT_DAC_RESOLUTION
    /\ dynamicRange_ = Pow2(DEFAULT_DAC_RESOLUTION)
    /\ dynamicRangeToScale_ = Pow2(DEFAULT_DAC_RESOLUTION) \div 2 - 1
    /\ dacOverflow = FALSE
    /\ stubPos = 0
    /\ stubLeft = left
    /\ stubPre = [stubPos |-> 0, stubLeft |-> left]
    /\ pulls = 0
    /\ dacBuffer = EmptyDacBuffer

\* no call of leastCommonMultiple is active
LcmInit ==
    lcm = [pc |-> "idle", numA |-> 0, numB |-> 0, originalNumberA |-> 0,
           originalNumberB |-> 0, result |-> 0, ret |-> 0]

Init == ToneInit /\ DacInit("null", 0) /\ LcmInit

\* ---------------------------------------------------------------- setters
\* mutant: the interval test made inclusive of its end points
ToneFrequencyRejected_Inclusive(freq) ==
    \/ (~isnan(freq) /\ freq.v < MIN_GENERATABLE_FREQUENCY)
    \/ (~isnan(freq) /\ freq.v > MAX_GENERATABLE_FREQUENCY)
    \/ isnan(freq)

\* the rejection test of PureTone::setToneFrequency
ToneFrequencyRejected(freq) ==
    \/ FloatLessEq(freq, MIN_GENERATABLE_FREQUENCY)
    \/ FloatGreaterEq(freq, MAX_GENERATABLE_FREQUENCY)
    \/ isnan(freq)

\* mutant: the frequency committed before it is validated
setToneFrequencyResult_CommitFirst(freq) ==
    IF ToneFrequencyRejected(freq)
    THEN [toneFrequency |-> freq.v, stepArgument |-> stepArgument_,
          periodSize_samples |-> periodSize_samples_, ret |-> FALSE]
    ELSE [toneFrequency |-> freq.v,
          stepArgument |-> StepArgumentOf(freq.v, samplingFrequency_),
          periodSize_samples |->
              seconds2samples(getPeriod_secs(freq.v), samplingFrequency_),
          ret |-> TRUE]

\* the body of PureTone::setToneFrequency: the new values of
\* toneFrequency_, stepArgument_, periodSize_samples_ and the return value
setToneFrequencyResult(freq) ==
    IF ToneFrequencyRejected(freq)
    THEN [toneFrequency |-> toneFrequency_, stepArgument |-> stepArgument_,
          periodSize_samples |-> periodSize_samples_, ret |-> FALSE]
    ELSE [toneFrequency |-> freq.v,
          stepArgument |-> StepArgumentOf(freq.v, samplingFrequency_),
          periodSize_samples |->
              seconds2samples(getPeriod_secs(freq.v), samplingFrequency_),
          ret |-> TRUE]

setToneFrequency(freq) ==
    /\ pc = "running"
    /\ LET r == setToneFrequencyResult(freq) IN
        /\ toneFrequency_' = r.toneFrequency
        /\ stepArgument_' = r.stepArgument
        /\ periodSize_samples_' = r.periodSize_samples
        /\ UNCHANGED <<phase_, position_, samplingFrequency_>>
        /\ Called("setToneFrequency", [freq |-> freq], r.ret)

\* mutant: zero accepted as a sampling frequency
SamplingFrequencyRejected_ZeroAccepted(samplingFrequency) ==
    (~isnan(samplingFrequency) /\ samplingFrequency.v < 0)
        \/ isnan(samplingFrequency)

\* the rejection test of Stimuli::setSamplingFrequency
SamplingFrequencyRejected(samplingFrequency) ==
    FloatLessEq(samplingFrequency, 0) \/ isnan(samplingFrequency)

\* Stimuli::setSamplingFrequency (PureTone does not override it)
setSamplingFrequency(samplingFrequency) ==
    /\ pc = "running"
    /\ IF SamplingFrequencyRejected(samplingFrequency)
       THEN /\ UNCHANGED fields
            /\ Called("setSamplingFrequency",
                      [freq |-> samplingFrequency], FALSE)
       ELSE /\ samplingFrequency_' = samplingFrequency.v
            /\ UNCHANGED <<toneFrequency_, phase_, stepArgument_,
                           periodSize_samples_, position_>>
            /\ Called("setSamplingFrequency",
                      [freq |-> samplingFrequency], TRUE)

\* PureTone::setPhase
setPhase(phase) ==
    /\ pc = "running"
    /\ phase_' = normalizeRadian(phase)
    /\ UNCHANGED <<toneFrequency_, stepArgument_, periodSize_samples_,
                   position_, samplingFrequency_>>
    /\ Called("setPhase", [phase |-> phase], TRUE)

\* Stimuli::setPosition
setPosition(position) ==
    /\ pc = "running"
    /\ position_' = position
    /\ UNCHANGED <<toneFrequency_, phase_, stepArgument_,
                   periodSize_samples_, samplingFrequency_>>
    /\ Called("setPosition", [position |-> position], TRUE)

\* Stimuli::resetPosition
resetPosition ==
    /\ pc = "running"
    /\ position_' = 0
    /\ UNCHANGED <<toneFrequency_, phase_, stepArgument_,
                   periodSize_samples_, samplingFrequency_>>
    /\ Called("resetPosition", <<>>, TRUE)

\* PureTone::setPeriodeSize_samples
setPeriodeSize_samples(periodeSize_samples) ==
    /\ pc = "running"
    /\ IF periodeSize_samples = 0
       THEN /\ UNCHANGED fields
            /\ Called("setPeriodeSize_samples",
                      [periodeSize_samples |-> periodeSize_samples], FALSE)
       ELSE /\ periodSize_samples_' = periodeSize_samples
            /\ UNCHANGED <<toneFrequency_, phase_, stepArgument_,
                           position_, samplingFrequency_>>
            /\ Called("setPeriodeSize_samples",
                      [periodeSize_samples |-> periodeSize_samples], TRUE)

\* mutant: a parameter block of another size than the struct is refused
configure_SizeChecked(isNull, frequency, typeSize) ==
    /\ pc = "running"
    /\ IF isNull \/ typeSize # 4
       THEN /\ UNCHANGED fields
            /\ Called("configure",
                      IF isNull THEN [isNull |-> TRUE, typeSize |-> typeSize]
                      ELSE [isNull |-> FALSE, freq |-> frequency,
                            typeSize |-> typeSize], FALSE)
       ELSE LET r == setToneFrequencyResult(frequency) IN
            /\ toneFrequency_' = r.toneFrequency
            /\ stepArgument_' = r.stepArgument
            /\ periodSize_samples_' = r.periodSize_samples
            /\ UNCHANGED <<phase_, position_, samplingFrequency_>>
            /\ Called("configure", [isNull |-> FALSE, freq |-> frequency,
                                    typeSize |-> typeSize], r.ret)

\* PureTone::configure; typeSize is not read
configure(isNull, frequency, typeSize) ==
    /\ pc = "running"
    /\ IF isNull
       THEN /\ UNCHANGED fields
            /\ Called("configure", [isNull |-> TRUE, typeSize |-> typeSize],
                      FALSE)
       ELSE LET r == setToneFrequencyResult(frequency) IN
            /\ toneFrequency_' = r.toneFrequency
            /\ stepArgument_' = r.stepArgument
            /\ periodSize_samples_' = r.periodSize_samples
            /\ UNCHANGED <<phase_, position_, samplingFrequency_>>
            /\ Called("configure", [isNull |-> FALSE, freq |-> frequency,
                                    typeSize |-> typeSize], r.ret)

\* --------------------------------------------------------------- generate
\* mutant: the size test left out
GeneratePreconditionFails_NoSizeTest(isNull, size) ==
    isNull \/ toneFrequency_ = 0 \/ samplingFrequency_ = 0

\* the precondition test of PureTone::generate
GeneratePreconditionFails(isNull, size) ==
    isNull \/ size = 0 \/ toneFrequency_ = 0 \/ samplingFrequency_ = 0

\* the argument of sin() for sample number n, reduced modulo one turn:
\* stepArgument_ * n + phase, as <<numerator, denominator>> of a turn
SampleAngle(step, n, phase) ==
    <<(step[1] * n * TwoPi + phase * step[2]) % (step[2] * TwoPi),
      step[2] * TwoPi>>

\* a % b where the build does not trap on b = 0 (the quotient of the
\* division by zero is 0, so the remainder is the dividend)
Remainder(a, b) == IF b = 0 THEN a ELSE a % b

\* mutant: every period boundary overwrites sync (no syncFound test)
RECURSIVE SyncLoop_LastWins(_, _, _, _, _, _)
SyncLoop_LastWins(index, size, position, periodSize, syncFound, syncValue) ==
    IF index >= size THEN syncValue
    ELSE IF Remainder(position + index, periodSize) = 0
         THEN SyncLoop_LastWins(index + 1, size, position, periodSize,
                                TRUE, index)
         ELSE SyncLoop_LastWins(index + 1, size, position, periodSize,
                                syncFound, syncValue)

\* the sync bookkeeping of the generation loop, from index on
RECURSIVE SyncLoop(_, _, _, _, _, _)
SyncLoop(index, size, position, periodSize, syncFound, syncValue) ==
    IF index >= size THEN syncValue
    ELSE IF ~syncFound /\ Remainder(position + index, periodSize) = 0
         THEN SyncLoop(index + 1, size, position, periodSize, TRUE, index)
         ELSE SyncLoop(index + 1, size, position, periodSize,
                       syncFound, syncValue)

\* the position update that ends generate
NextPosition(position, size, periodSize) ==
    IF position + size >= periodSize
    THEN Remainder(position + size, periodSize)
    ELSE position + size

\* the samples generate writes: slots 1..size of the caller's buffer
GeneratedSamples(size) ==
    [i \in 1..MaxSize |->
        IF i <= size
        THEN SampleAngle(stepArgument_, position_ + (i - 1), phase_)
        ELSE Untouched]

\* the run of successive generate calls, extended by this call
ExtendRun(size) ==
    LET out == SubSeq(GeneratedSamples(size), 1, size) IN
    IF run.calls < MaxRunCalls
    THEN [start |-> run.start, calls |-> run.calls + 1,
          emitted |-> run.emitted \o out]
    ELSE [start |-> position_, calls |-> 1, emitted |-> out]

NoReturn == -1

\* PureTone::generate.  divZero is what the build does with the modulo by
\* a zero periodSize_samples_ (undefined behaviour): "trap" or "dividend"
generate(isNull, size, divZero) ==
    /\ pc = "running"
    /\ position_ + size <= MaxPosition + MaxSize
    /\ op' = "generate"
    /\ arg' = [isNull |-> isNull, size |-> size]
    /\ pre' = Snapshot
    /\ UNCHANGED <<dacVars, lcm>>
    /\ UNCHANGED <<toneFrequency_, phase_, stepArgument_,
                   periodSize_samples_, samplingFrequency_>>
    /\ IF GeneratePreconditionFails(isNull, size)
       THEN /\ ret' = 0
            /\ sampleBuffer' = EmptyBuffer
            /\ UNCHANGED <<position_, pc, sync, run>>
       ELSE IF periodSize_samples_ = 0 /\ divZero = "trap"
       THEN \* sampleBuffer[0] is written, then the modulo traps
            /\ pc' = "trapped"
            /\ ret' = NoReturn
            /\ sync' = -1
            /\ sampleBuffer' = GeneratedSamples(1)
            /\ UNCHANGED <<position_, run>>
       ELSE /\ ret' = size
            /\ sync' = SyncLoop(0, size, position_, periodSize_samples_,
                                FALSE, -1)
            /\ sampleBuffer' = GeneratedSamples(size)
            /\ position_' = NextPosition(position_, size,
                                         periodSize_samples_)
            /\ run' = ExtendRun(size)
            /\ UNCHANGED pc

\* ------------------------------------------------------ float32 rounding
\* the binary exponent by which the magnitude a exceeds 24 significant bits
F32Shift(a) ==
    CHOOSE k \in 0..(31 - MANTISSA_BITS) :
        /\ a \div Pow2(k) < MANTISSA_LIMIT
        /\ k > 0 => a \div Pow2(k - 1) >= MANTISSA_LIMIT

\* the float32 nearest to n units (the unit is a power of two), ties to
\* even: the rounding of every float32 operation
F32(n) ==
    LET a == IF n < 0 THEN -n ELSE n
        k == IF a < MANTISSA_LIMIT THEN 0 ELSE F32Shift(a)
        q == a \div Pow2(k)
        rem == a % Pow2(k)
        half == IF k = 0 THEN 0 ELSE Pow2(k - 1)
        up == k > 0 /\ (rem > half \/ (rem = half /\ q % 2 = 1))
        m == (IF up THEN q + 1 ELSE q) * Pow2(k)
    IN IF n < 0 THEN -m ELSE m

\* ASG::round(x) = ceil(x - 0.5f) of the float32 x = num/den, the
\* subtraction rounded to float32
round_f32(num, den) == Ceil(F32(2 * num - den), 2 * den)

\* ASG::pow(2, exp) = ASG::round(std::pow(2.0f, exp)), exp >= 0.  std::pow
\* gives the float32 2^exp exactly.  From exp = 24 on, 2^exp - 0.5f rounds
\* back to 2^exp; the cast of 2^exp to int32 overflows from exp = 31 on
pow(exp) ==
    IF exp >= 31 THEN [overflow |-> TRUE, v |-> 0]
    ELSE IF exp >= MANTISSA_BITS THEN [overflow |-> FALSE, v |-> Pow2(exp)]
    ELSE [overflow |-> FALSE, v |-> round_f32(Pow2(exp), 1)]

\* what a build leaves in dynamicRange_ when the cast overflowed
OverflowResults == {2, INT32_MAX}

\* ---------------------------------------------------------------- Stim2Dac
\* the new values setDacResolution stores; wild is the outcome of the
\* overflowing cast (undefined behaviour)
setDacResolutionResult(dacResolution, wild) ==
    LET p == pow(dacResolution)
        range == IF p.overflow THEN wild ELSE p.v
    IN [dacResolution |-> dacResolution, dynamicRange |-> range,
        dynamicRangeToScale |-> (range \div 2) - 1, overflow |-> p.overflow]

\* an adapter operation that is not generate
DacCalled(name, a, r) ==
    /\ op' = name /\ arg' = a /\ ret' = r
    /\ pre' = Snapshot
    /\ stubPre' = StubSnapshot
    /\ pulls' = 0
    /\ dacBuffer' = EmptyDacBuffer
    /\ sync' = 0
    /\ UNCHANGED <<fields, pc, sampleBuffer, run, stubPos, stubLeft, lcm>>

\* Stim2Dac::setDacResolution
setDacResolution(dacResolution, wild) ==
    /\ pc = "running"
    /\ LET r == setDacResolutionResult(dacResolution, wild) IN
        /\ dacResolution_' = r.dacResolution
        /\ dynamicRange_' = r.dynamicRange
        /\ dynamicRangeToScale_' = r.dynamicRangeToScale
        /\ dacOverflow' = r.overflow
    /\ UNCHANGED stimuli_
    /\ DacCalled("setDacResolution", [dacResolution |-> dacResolution], TRUE)

\* Stim2Dac::Stim2Dac(stimuli, dacResolution)
Stim2Dac(stimuli, dacResolution, wild) ==
    /\ pc = "running"
    /\ stimuli_' = stimuli
    /\ LET r == setDacResolutionResult(dacResolution, wild) IN
        /\ dacResolution_' = r.dacResolution
        /\ dynamicRange_' = r.dynamicRange
        /\ dynamicRangeToScale_' = r.dynamicRangeToScale
        /\ dacOverflow' = r.overflow
    /\ DacCalled("Stim2Dac", [stimuli |-> stimuli,
                              dacResolution |-> dacResolution], TRUE)

\* Stim2Dac::setStimuli
setStimuli(stimuli) ==
    /\ pc = "running"
    /\ stimuli_' = stimuli
    /\ UNCHANGED <<dacResolution_, dynamicRange_, dynamicRangeToScale_,
                   dacOverflow>>
    /\ DacCalled("setStimuli", [stimuli |-> stimuli], TRUE)

\* the owner of the stub stimulus loads it with left samples
loadStub(left) ==
    /\ pc = "running"
    /\ UNCHANGED stubPos
    /\ stubLeft' = left
    /\ op' = "loadStub" /\ arg' = [left |-> left]
    /\ ret' = TRUE
    /\ pre' = Snapshot
    /\ stubPre' = StubSnapshot
    /\ pulls' = 0
    /\ dacBuffer' = EmptyDacBuffer
    /\ sync' = 0
    /\ UNCHANGED <<fields, pc, sampleBuffer, run, stimuli_, dacResolution_,
                   dynamicRange_, dynamicRangeToScale_, dacOverflow, lcm>>

\* ------------------------------------------------- Stim2Dac quantization
\* static_cast to the unsigned element type of width bits
Wrap(v, width) == IF width >= 31 THEN v ELSE v % Pow2(width)

\* round((x + 1) / 2 * (dynamicRange_ - 1)), x = xh halves, in float32
QuantizeUnsigned(xh, dynamicRange, width) ==
    LET scaled == F32((xh + 2) * F32(dynamicRange - 1))    \* quarters
    IN Wrap(round_f32(scaled, 4), width)

\* static_cast<intN>(x * dynamicRangeToScale_), x = xh halves: the float32
\* product truncated toward zero
QuantizeSigned(xh, scale) ==
    LET product == F32(xh * F32(scale))                      \* halves
    IN IF product >= 0 THEN product \div 2 ELSE -((-product) \div 2)

\* the element width of each generate overload
Width(overload) ==
    CASE overload \in {"uint32", "int32"} -> 32
      [] overload \in {"uint16", "int16"} -> 16
      [] overload \in {"uint8", "int8"} -> 8

Signed(overload) == overload \in {"int32", "int16", "int8"}

Overloads == {"uint32", "int32", "uint16", "int16", "uint8", "int8"}

\* what the quantization line of the overload stores for the pulled value
Quantize(overload, value) ==
    IF value.tag = "sin" THEN value
    ELSE IF dacOverflow THEN [tag |-> "indeterminate", v |-> 0]
    ELSE IF Signed(overload)
    THEN [tag |-> "code", v |-> QuantizeSigned(value.v, dynamicRangeToScale_)]
    ELSE [tag |-> "code",
          v |-> QuantizeUnsigned(value.v, dynamicRange_, Width(overload))]

\* --------------------------------------------------- Stim2Dac::generate
\* which overloads test stimuli_ and size in their precondition
ChecksStimuli(overload) == overload = "uint32"

\* which overloads write sync = -1 before the loop
ResetsSync(overload) == overload = "int32"

\* mutant: the int32 overload stores syncTmp as the narrow overloads do
StoresIndex_Uint32Only(overload) == overload = "uint32"

\* which overloads store the loop index on a mark, the others store syncTmp
StoresIndex(overload) == overload \in {"uint32", "int32"}

\* the precondition test of the overload
DacPreconditionFails(overload, isNull, size) ==
    \/ isNull
    \/ dacResolution_ > Width(overload)
    \/ (ChecksStimuli(overload) /\ (stimuli_ = "null" \/ size <= 1))

\* stimuli_->generate(&tmpValue, 1, syncTmp) in loop state s: the single
\* sample pull from the tone or from the stub
Pull(s, divZero) ==
    IF stimuli_ = "tone"
    THEN IF GeneratePreconditionFails(FALSE, 1)
         THEN [ret |-> 0, trapped |-> FALSE, value |-> DacUntouched,
               syncTmp |-> -1, position |-> s.position,
               stubPos |-> s.stubPos, stubLeft |-> s.stubLeft]
         ELSE IF periodSize_samples_ = 0 /\ divZero = "trap"
         THEN [ret |-> NoReturn, trapped |-> TRUE, value |-> DacUntouched,
               syncTmp |-> -1, position |-> s.position,
               stubPos |-> s.stubPos, stubLeft |-> s.stubLeft]
         ELSE [ret |-> 1, trapped |-> FALSE,
               value |-> [tag |-> "sin",
                          v |-> SampleAngle(stepArgument_, s.position,
                                            phase_)[1]],
               syncTmp |-> SyncLoop(0, 1, s.position, periodSize_samples_,
                                    FALSE, -1),
               position |-> NextPosition(s.position, 1, periodSize_samples_),
               stubPos |-> s.stubPos, stubLeft |-> s.stubLeft]
    ELSE IF s.stubLeft = 0
         THEN [ret |-> 0, trapped |-> FALSE, value |-> DacUntouched,
               syncTmp |-> -1, position |-> s.position,
               stubPos |-> s.stubPos, stubLeft |-> s.stubLeft]
         ELSE [ret |-> 1, trapped |-> FALSE,
               value |-> [tag |-> "half", v |-> StubWave[s.stubPos + 1]],
               syncTmp |-> IF s.stubPos = 0 THEN 0 ELSE -1,
               position |-> s.position,
               stubPos |-> (s.stubPos + 1) % Len(StubWave),
               stubLeft |-> IF s.stubLeft = Endless THEN Endless
                            ELSE s.stubLeft - 1]

\* the loop state when the loop is entered
LoopEntry(overload, syncIn) ==
    [index |-> 0, buf |-> EmptyDacBuffer,
     sync |-> IF ResetsSync(overload) THEN -1 ELSE syncIn,
     isSyncFounded |-> FALSE, position |-> position_,
     stubPos |-> stubPos, stubLeft |-> stubLeft, pulls |-> 0,
     ret |-> NoReturn, trapped |-> FALSE]

\* mutant: a failed pull ends the call with the requested size
RECURSIVE DacLoop_ReturnsSize(_, _, _, _)
DacLoop_ReturnsSize(overload, size, s, divZero) ==
    IF s.index >= size THEN [s EXCEPT !.ret = size]
    ELSE IF stimuli_ = "null"
    THEN [s EXCEPT !.trapped = TRUE, !.pulls = s.pulls + 1]
    ELSE LET p == Pull(s, divZero)
             mark == ~s.isSyncFounded /\ p.syncTmp # -1
         IN IF p.trapped
            THEN [s EXCEPT !.trapped = TRUE, !.pulls = s.pulls + 1]
            ELSE IF p.ret = 0
            THEN [s EXCEPT !.ret = size, !.pulls = s.pulls + 1]
            ELSE DacLoop_ReturnsSize(overload, size,
                     [s EXCEPT !.index = s.index + 1,
                               !.buf[s.index + 1] = Quantize(overload, p.value),
                               !.sync = IF mark
                                        THEN IF StoresIndex(overload)
                                             THEN s.index ELSE p.syncTmp
                                        ELSE s.sync,
                               !.isSyncFounded = s.isSyncFounded \/ mark,
                               !.position = p.position,
                               !.stubPos = p.stubPos,
                               !.stubLeft = p.stubLeft,
                               !.pulls = s.pulls + 1],
                     divZero)

\* the generation loop of the overload from loop state s on.  A call
\* through a null stimuli_ faults on the access to address 0
RECURSIVE DacLoop(_, _, _, _)
DacLoop(overload, size, s, divZero) ==
    IF s.index >= size THEN [s EXCEPT !.ret = size]
    ELSE IF stimuli_ = "null"
    THEN [s EXCEPT !.trapped = TRUE, !.pulls = s.pulls + 1]
    ELSE LET p == Pull(s, divZero)
             mark == ~s.isSyncFounded /\ p.syncTmp # -1
         IN IF p.trapped
            THEN [s EXCEPT !.trapped = TRUE, !.pulls = s.pulls + 1]
            ELSE IF p.ret = 0
            THEN [s EXCEPT !.ret = s.index, !.pulls = s.pulls + 1]
            ELSE DacLoop(overload, size,
                     [s EXCEPT !.index = s.index + 1,
                               !.buf[s.index + 1] = Quantize(overload, p.value),
                               !.sync = IF mark
                                        THEN IF StoresIndex(overload)
                                             THEN s.index ELSE p.syncTmp
                                        ELSE s.sync,
                               !.isSyncFounded = s.isSyncFounded \/ mark,
                               !.position = p.position,
                               !.stubPos = p.stubPos,
                               !.stubLeft = p.stubLeft,
                               !.pulls = s.pulls + 1],
                     divZero)

\* the body shared by the six overloads of Stim2Dac::generate; syncIn is
\* what the caller's sync variable holds, divZero as in PureTone::generate
DacGenerate(overload, isNull, size, syncIn, divZero) ==
    /\ pc = "running"
    /\ stimuli_ = "tone" => position_ + size <= MaxPosition + MaxSize
    /\ op' = "Stim2Dac::generate"
    /\ arg' = [overload |-> overload, isNull |-> isNull, size |-> size,
               sync |-> syncIn]
    /\ pre' = Snapshot
    /\ stubPre' = StubSnapshot
    /\ UNCHANGED <<toneFrequency_, phase_, stepArgument_,
                   periodSize_samples_, samplingFrequency_, sampleBuffer,
                   run, stimuli_, dacResolution_, dynamicRange_,
                   dynamicRangeToScale_, dacOverflow, lcm>>
    /\ IF DacPreconditionFails(overload, isNull, size)
       THEN /\ ret' = 0
            /\ sync' = syncIn
            /\ pulls' = 0
            /\ dacBuffer' = EmptyDacBuffer
            /\ UNCHANGED <<position_, stubPos, stubLeft, pc>>
       ELSE LET s == DacLoop(overload, size, LoopEntry(overload, syncIn),
                             divZero) IN
            /\ ret' = s.ret
            /\ sync' = s.sync
            /\ pulls' = s.pulls
            /\ dacBuffer' = s.buf
            /\ position_' = s.position
            /\ stubPos' = s.stubPos
            /\ stubLeft' = s.stubLeft
            /\ pc' = IF s.trapped THEN "trapped" ELSE pc

\* Stim2Dac::generate(uint32_t*, size_t, int32_t&)
generate_uint32(isNull, size, syncIn, divZero) ==
    DacGenerate("uint32", isNull, size, syncIn, divZero)

\* Stim2Dac::generate(int32_t*, size_t, int32_t&)
generate_int32(isNull, size, syncIn, divZero) ==
    DacGenerate("int32", isNull, size, syncIn, divZero)

\* Stim2Dac::generate(uint16_t*, size_t, int32_t&)
generate_uint16(isNull, size, syncIn, divZero) ==
    DacGenerate("uint16", isNull, size, syncIn, divZero)

\* Stim2Dac::generate(int16_t*, size_t, int32_t&)
generate_int16(isNull, size, syncIn, divZero) ==
    DacGenerate("int16", isNull, size, syncIn, divZero)

\* Stim2Dac::generate(uint8_t*, size_t, int32_t&)
generate_uint8(isNull, size, syncIn, divZero) ==
    DacGenerate("uint8", isNull, size, syncIn, divZero)

\* Stim2Dac::generate(int8_t*, size_t, int32_t&)
generate_int8(isNull, size, syncIn, divZero) ==
    DacGenerate("int8", isNull, size, syncIn, divZero)

\* the adapter over the stub stimulus or over no stimulus
NextDac ==
    \/ \E stimuli \in {"null", "stub"} : setStimuli(stimuli)
    \/ \E r \in WidthResolutions, wild \in OverflowResults :
          setDacResolution(r, wild)
    \/ \E left \in StubLoads : loadStub(left)
    \/ \E isNull \in BOOLEAN, size \in DacSizes, syncIn \in SyncInputs :
          generate_uint32(isNull, size, syncIn, "trap")
    \/ \E isNull \in BOOLEAN, size \in DacSizes, syncIn \in SyncInputs :
          generate_int32(isNull, size, syncIn, "trap")
    \/ \E isNull \in BOOLEAN, size \in DacSizes, syncIn \in SyncInputs :
          generate_uint16(isNull, size, syncIn, "trap")
    \/ \E isNull \in BOOLEAN, size \in DacSizes, syncIn \in SyncInputs :
          generate_int16(isNull, size, syncIn, "trap")
    \/ \E isNull \in BOOLEAN, size \in DacSizes, syncIn \in SyncInputs :
          generate_uint8(isNull, size, syncIn, "trap")
    \/ \E isNull \in BOOLEAN, size \in DacSizes, syncIn \in SyncInputs :
          generate_int8(isNull, size, syncIn, "trap")

SpecDac == Init /\ [][NextDac]_vars

\* the resolutions of the adapter, over an endless stub stimulus
InitResolution == ToneInit /\ DacInit("stub", Endless) /\ LcmInit

NextResolution ==
    \/ \E r \in ResolutionInputs, wild \in OverflowResults :
          Stim2Dac("stub", r, wild)
    \/ \E r \in ResolutionInputs, wild \in OverflowResults :
          setDacResolution(r, wild)
    \/ \E size \in 1..2 : generate_uint32(FALSE, size, -1, "trap")
    \/ \E size \in 1..2 : generate_int32(FALSE, size, -1, "trap")
    \/ \E size \in 1..2 : generate_uint16(FALSE, size, -1, "trap")
    \/ \E size \in 1..2 : generate_int16(FALSE, size, -1, "trap")
    \/ \E size \in 1..2 : generate_uint8(FALSE, size, -1, "trap")
    \/ \E size \in 1..2 : generate_int8(FALSE, size, -1, "trap")

SpecResolution == InitResolution /\ [][NextResolution]_vars

\* the adapter over a PureTone
InitDacTone == ToneInit /\ DacInit("tone", 0) /\ LcmInit

NextDacTone ==
    \/ \E p \in 0..MaxPeriodArg : setPeriodeSize_samples(p)
    \/ \E position \in 0..MaxPosition : setPosition(position)
    \/ \E phase \in PhaseInputs : setPhase(phase)
    \/ \E isNull \in BOOLEAN, size \in 0..MaxSize, syncIn \in SyncInputs,
          divZero \in {"trap", "dividend"} :
          generate_int32(isNull, size, syncIn, divZero)
    \/ \E isNull \in BOOLEAN, size \in 0..MaxSize, syncIn \in SyncInputs,
          divZero \in {"trap", "dividend"} :
          generate_uint8(isNull, size, syncIn, divZero)

SpecDacTone == InitDacTone /\ [][NextDacTone]_vars

\* ------------------------------------------- Stimuli::leastCommonMultiple
\* the call: the locals are initialised and the loop is entered
leastCommonMultiple(numA, numB) ==
    /\ lcm.pc \in {"idle", "done"}
    /\ lcm' = [pc |-> "testA", numA |-> numA, numB |-> numB,
               originalNumberA |-> numA, originalNumberB |-> numB,
               result |-> 0, ret |-> 0]
    /\ UNCHANGED objectVars

\* if (numA == 0) { result = numB; break; }
lcmTestA ==
    /\ lcm.pc = "testA"
    /\ lcm' = IF lcm.numA = 0
              THEN [lcm EXCEPT !.result = lcm.numB, !.pc = "return"]
              ELSE [lcm EXCEPT !.pc = "modB"]
    /\ UNCHANGED objectVars

\* numB %= numA; if (numB == 0) { result = numA; break; }
lcmModB ==
    /\ lcm.pc = "modB"
    /\ lcm' = IF lcm.numA = 0
              THEN [lcm EXCEPT !.pc = "moduloByZero"]
              ELSE LET numB == lcm.numB % lcm.numA IN
                   IF numB = 0
                   THEN [lcm EXCEPT !.numB = numB, !.result = lcm.numA,
                                    !.pc = "return"]
                   ELSE [lcm EXCEPT !.numB = numB, !.pc = "modA"]
    /\ UNCHANGED objectVars

\* mutant: the remainder is computed but not stored in numA
lcmModA_NotStored ==
    /\ lcm.pc = "modA"
    /\ lcm' = IF lcm.numB = 0
              THEN [lcm EXCEPT !.pc = "moduloByZero"]
              ELSE [lcm EXCEPT !.pc = "testA"]
    /\ UNCHANGED objectVars

\* numA %= numB; and back to the head of the loop
lcmModA ==
    /\ lcm.pc = "modA"
    /\ lcm' = IF lcm.numB = 0
              THEN [lcm EXCEPT !.pc = "moduloByZero"]
              ELSE [lcm EXCEPT !.numA = lcm.numA % lcm.numB, !.pc = "testA"]
    /\ UNCHANGED objectVars

\* mutant: the product is not divided by the common divisor
lcmResult_NoDivision(originalNumberA, originalNumberB, result) ==
    IF result # 0 THEN originalNumberA * originalNumberB ELSE 0

\* (result) ? (originalNumberA / result * originalNumberB) : 0
lcmResult(originalNumberA, originalNumberB, result) ==
    IF result # 0 THEN (originalNumberA \div result) * originalNumberB ELSE 0

\* the return statement
lcmReturn ==
    /\ lcm.pc = "return"
    /\ lcm' = [lcm EXCEPT
                  !.ret = lcmResult(lcm.originalNumberA, lcm.originalNumberB,
                                    lcm.result),
                  !.pc = "done"]
    /\ UNCHANGED objectVars

NextLcm ==
    \/ \E numA \in 0..MaxLcmArg, numB \in 0..MaxLcmArg :
          leastCommonMultiple(numA, numB)
    \/ lcmTestA
    \/ lcmModB
    \/ lcmModA
    \/ lcmReturn

SpecLcm == Init /\ [][NextLcm]_vars

\* a call that is in progress executes its next statement
LcmFairness ==
    /\ WF_vars(lcmTestA)
    /\ WF_vars(lcmModB)
    /\ WF_vars(lcmModA)
    /\ WF_vars(lcmReturn)

SpecLcmFair == Init /\ [][NextLcm]_vars /\ LcmFairness

Next ==
    \/ \E freq \in ToneFrequencyInputs : setToneFrequency(freq)
    \/ \E freq \in SamplingFrequencyInputs : setSamplingFrequency(freq)
    \/ \E phase \in PhaseInputs : setPhase(phase)
    \/ \E position \in 0..MaxPosition : setPosition(position)
    \/ resetPosition
    \/ \E p \in 0..MaxPeriodArg : setPeriodeSize_samples(p)
    \/ \E isNull \in BOOLEAN, freq \in ParameterFrequencies,
          typeSize \in {0, 4} : configure(isNull, freq, typeSize)
    \/ \E isNull \in BOOLEAN, size \in 0..MaxSize,
          divZero \in {"trap", "dividend"} : generate(isNull, size, divZero)

Spec == Init /\ [][Next]_vars
\* ================================================================ claims
\* |fs/f - P| <= 1/2 and step = f/fs of a turn: the derived fields of
\* snapshot t agree with its frequencies
DerivedMatch(t) ==
    LET d == t.samplingFrequency - t.periodSize_samples * t.toneFrequency IN
    /\ 2 * d <= t.toneFrequency
    /\ -2 * d <= t.toneFrequency
    /\ t.stepArgument[1] * t.samplingFrequency
           = t.toneFrequency * t.stepArgument[2]

\* the last call was a generate that passed its preconditions
GeneratePassed == op = "generate" /\ ~arg.isNull /\ arg.size > 0

\* C1: starting from position 0 with derived fields that match a valid
\* frequency and sampling rate, the sample angles of two successive generate
\* calls, concatenated, are the angles of one call of the total size.
C1_PhaseContinuity ==
    (/\ pc = "running"
     /\ run.start = 0
     /\ run.calls = 2
     /\ periodSize_samples_ > 0
     /\ DerivedMatch(Snapshot))
    => run.emitted = [j \in 1..Len(run.emitted) |->
                         SampleAngle(stepArgument_, j - 1, phase_)]

\* C2: a successful setToneFrequency leaves the derived fields matching the
\* current frequencies, and a successful setSamplingFrequency made when they
\* matched leaves them matching.
C2_DerivedFieldsFollowSetters ==
    (/\ op \in {"setToneFrequency", "setSamplingFrequency"}
     /\ ret = TRUE
     /\ (op = "setSamplingFrequency" => DerivedMatch(pre)))
    => DerivedMatch(Snapshot)

\* C3: periodSize_samples_ is positive in every reachable state, and
\* generate never divides by zero.
C3_PeriodSizePositive ==
    periodSize_samples_ > 0 /\ pc # "trapped"

\* C4: the stored phase lies in [0, 2*pi), and setPhase(p) returns true and
\* stores a phase congruent to p modulo 2*pi.
C4_PhaseNormalized ==
    /\ phase_ >= 0 /\ phase_ < TwoPi
    /\ op = "setPhase" =>
           ret = TRUE /\ (phase_ - arg.phase) % TwoPi = 0

\* the indices i in [0, n) with (p + i) mod P = 0
BoundaryIndices(p, P, n) == {i \in 0..(n - 1) : (p + i) % P = 0}

\* the smallest of them, -1 when there is none
FirstBoundary(p, P, n) ==
    IF BoundaryIndices(p, P, n) = {} THEN -1
    ELSE CHOOSE i \in BoundaryIndices(p, P, n) :
             \A j \in BoundaryIndices(p, P, n) : i <= j

\* C5, first part: after a generate that passed its preconditions with a
\* positive period, sync is the first index on a period boundary, or -1;
\* from position 0 with size >= P it is 0.
SyncIsFirstBoundary ==
    (GeneratePassed /\ pre.periodSize_samples > 0) =>
        /\ ret = arg.size
        /\ sync = FirstBoundary(pre.position, pre.periodSize_samples,
                                arg.size)
        /\ (pre.position = 0 /\ arg.size >= pre.periodSize_samples)
               => sync = 0

\* C5 as claimed: ... and from position P-1 with size >= 2 sync is 1.
C5_SyncDetection_Claimed ==
    /\ SyncIsFirstBoundary
    /\ (/\ GeneratePassed /\ pre.periodSize_samples > 0
        /\ pre.position = pre.periodSize_samples - 1
        /\ arg.size >= 2)
       => sync = 1

\* C5 as amended: ... and from position P-1 with size >= 2 and P >= 2 sync
\* is 1 (with P = 1 position P-1 is itself a boundary and sync is 0).
C5_SyncDetection ==
    /\ SyncIsFirstBoundary
    /\ (/\ GeneratePassed /\ pre.periodSize_samples >= 2
        /\ pre.position = pre.periodSize_samples - 1
        /\ arg.size >= 2)
       => sync = 1

C5_Witness ==
    /\ GeneratePassed /\ pc = "running"
    /\ pre.periodSize_samples >= 2
    /\ pre.position = pre.periodSize_samples - 1
    /\ arg.size >= 2
    /\ sync = 1

\* C6: a generate call of size n that passed its preconditions returns n
\* and leaves position (p + n) mod P when p + n >= P, and p + n otherwise.
C6_PositionUpdate ==
    GeneratePassed =>
        /\ pc = "running"
        /\ ret = arg.size
        /\ pre.periodSize_samples > 0
        /\ position_ =
               IF pre.position + arg.size >= pre.periodSize_samples
               THEN (pre.position + arg.size) % pre.periodSize_samples
               ELSE pre.position + arg.size

\* C7: setToneFrequency returns false for NaN and for every frequency not
\* strictly between MIN and MAX, and then changes no field.
C7_RejectedToneFrequency ==
    (/\ op = "setToneFrequency"
     /\ \/ arg.freq.nan
        \/ arg.freq.v <= MIN_GENERATABLE_FREQUENCY
        \/ arg.freq.v >= MAX_GENERATABLE_FREQUENCY)
    => ret = FALSE /\ Snapshot = pre

C7_Witness ==
    /\ op = "setToneFrequency"
    /\ arg.freq = Float(MIN_GENERATABLE_FREQUENCY)
    /\ ret = FALSE
    /\ toneFrequency_ # DEFAULT_TONE_FREQUENCY
    /\ periodSize_samples_ > 0

\* C8: toneFrequency_ lies strictly between MIN and MAX in every state.
C8_ToneFrequencyInRange ==
    /\ toneFrequency_ > MIN_GENERATABLE_FREQUENCY
    /\ toneFrequency_ < MAX_GENERATABLE_FREQUENCY

C8_Witness ==
    /\ op = "configure" /\ ~arg.isNull /\ ret = FALSE
    /\ toneFrequency_ # DEFAULT_TONE_FREQUENCY

\* C9: setSamplingFrequency returns false and stores nothing for NaN and for
\* every frequency <= 0, returns true and stores the frequency otherwise, and
\* samplingFrequency_ is positive in every state.
C9_SamplingFrequency ==
    /\ samplingFrequency_ > 0
    /\ op = "setSamplingFrequency" =>
           IF arg.freq.nan \/ arg.freq.v <= 0
           THEN ret = FALSE /\ Snapshot = pre
           ELSE ret = TRUE /\ samplingFrequency_ = arg.freq.v

C9_Witness ==
    /\ op = "setSamplingFrequency"
    /\ arg.freq = Float(0)
    /\ ret = FALSE
    /\ samplingFrequency_ # DEFAULT_SAMPLING_FREQUENCY

\* C10: generate returns 0 on a null buffer, on size 0 and on a zero
\* frequency or sampling rate, and then writes no buffer element and
\* changes no field.
C10_GenerateRejects ==
    (/\ op = "generate"
     /\ \/ arg.isNull
        \/ arg.size = 0
        \/ pre.toneFrequency = 0
        \/ pre.samplingFrequency = 0)
    => /\ pc = "running"
       /\ ret = 0
       /\ \A i \in 1..MaxSize : sampleBuffer[i] = Untouched
       /\ Snapshot = pre

C10_Witness ==
    /\ op = "generate" /\ ~arg.isNull /\ arg.size = 0
    /\ ret = 0
    /\ periodSize_samples_ > 0
    /\ position_ >= periodSize_samples_

\* C18: PureTone::configure returns false for null parameters and otherwise
\* exactly what setToneFrequency(parameters.frequency) returns and stores,
\* whatever the size argument; when it returns false every field of the
\* tone is as before.
C18_Configure ==
    op = "configure" =>
        /\ arg.isNull => ret = FALSE
        /\ ~arg.isNull =>
            /\ ret = ~ToneFrequencyRejected(arg.freq)
            /\ ret => /\ toneFrequency_ = arg.freq.v
                      /\ stepArgument_ =
                             StepArgumentOf(arg.freq.v, pre.samplingFrequency)
                      /\ periodSize_samples_ =
                             seconds2samples(getPeriod_secs(arg.freq.v),
                                             pre.samplingFrequency)
                      /\ phase_ = pre.phase
                      /\ position_ = pre.position
        /\ ret = FALSE => Snapshot = pre

\* a frequency accepted through configure with size 0, and one refused
C18_Witness ==
    /\ op = "configure" /\ ~arg.isNull /\ arg.typeSize = 0
    /\ ret = TRUE /\ toneFrequency_ = arg.freq.v

\* the last call was a Stim2Dac::generate
DacGenerateCalled == op = "Stim2Dac::generate"

\* the last Stim2Dac::generate passed the precondition test of its overload
DacPassed ==
    /\ DacGenerateCalled
    /\ ~DacPreconditionFails(arg.overload, arg.isNull, arg.size)

\* C11: every overload of Stim2Dac::generate returns 0, without pulling from
\* the stimulus and without writing the buffer, when the buffer is null, the
\* stimulus reference is null or dacResolution exceeds the element width;
\* the uint32 overload also when size <= 1.
C11_PreconditionReturnsZero ==
    (/\ DacGenerateCalled
     /\ \/ arg.isNull
        \/ stimuli_ = "null"
        \/ dacResolution_ > Width(arg.overload)
        \/ (arg.overload = "uint32" /\ arg.size <= 1))
    => /\ pc = "running"
       /\ ret = 0
       /\ pulls = 0
       /\ StubSnapshot = stubPre
       /\ Snapshot = pre
       /\ dacBuffer = EmptyDacBuffer

\* the i-th sample (from 1) the stub gives from the state it was in before
\* the call
StubSample(i) ==
    [tag |-> "half",
     v |-> StubWave[((stubPre.stubPos + i - 1) % Len(StubWave)) + 1]]

\* C12: when the stimulus returns 0 on the (k+1)-th pull of a size-n call
\* that passed the preconditions (0 <= k < n), the adapter stops pulling and
\* returns k; slots [0, k) hold the quantized samples and slots [k, n) are
\* untouched.  A failure on the third pull of a size-10 call returns 2.
C12_PartialFailure ==
    (/\ DacPassed
     /\ stimuli_ = "stub"
     /\ stubPre.stubLeft # Endless
     /\ stubPre.stubLeft < arg.size)
    => LET k == stubPre.stubLeft IN
       /\ pc = "running"
       /\ ret = k
       /\ pulls = k + 1
       /\ \A i \in 1..MaxDacSize :
              dacBuffer[i] = IF i <= k
                             THEN Quantize(arg.overload, StubSample(i))
                             ELSE DacUntouched
       /\ (arg.size = 10 /\ k = 2) => ret = 2

\* the stub runs out on the third pull of the long call
C12_Witness ==
    /\ DacPassed /\ stimuli_ = "stub"
    /\ arg.size = MaxDacSize /\ stubPre.stubLeft = 2
    /\ ret = 2 /\ pulls = 3
    /\ dacBuffer[2].tag = "code" /\ dacBuffer[3] = DacUntouched

\* the indices in sampleBuffer of the samples the stub delivered with its
\* synchronization mark during the last call
MarkedIndices ==
    {i \in 0..(ret - 1) : (stubPre.stubPos + i) % Len(StubWave) = 0}

FirstMarked == CHOOSE i \in MarkedIndices : \A j \in MarkedIndices : i <= j

\* C13: in every overload, sync on return is the index in sampleBuffer of
\* the first sample the stimulus marked; later marks in the same call do
\* not change it.
C13_FirstSyncWins ==
    (/\ DacPassed
     /\ stimuli_ = "stub"
     /\ pc = "running"
     /\ MarkedIndices # {})
    => sync = FirstMarked

\* the slots the last Stim2Dac::generate wrote
WrittenSlots == 1..ret

\* the exact rational x = xh/2 truncated toward zero after scaling by scale
TruncateScaled(xh, scale) ==
    IF xh >= 0 THEN (xh * scale) \div 2 ELSE -(((-xh) * scale) \div 2)

\* C14: for every resolution r that passes the unsigned overload and every
\* sample x in [-1, 1], the stored value is round((x + 1) / 2 * (2^r - 1))
\* and lies in [0, 2^r - 1]; with r = 8, 0.0 gives 127, 1.0 gives 255 and
\* -1.0 gives 0.
C14_UnsignedQuantization ==
    (/\ DacPassed
     /\ stimuli_ = "stub"
     /\ ~Signed(arg.overload))
    => \A i \in WrittenSlots :
           LET xh == StubSample(i).v IN
           /\ dacBuffer[i].tag = "code"
           /\ ~dacOverflow
           /\ dacBuffer[i].v
                  = round((xh + 2) * (Pow2(dacResolution_) - 1), 4)
           /\ dacBuffer[i].v >= 0
           /\ dacBuffer[i].v <= Pow2(dacResolution_) - 1

\* C15: for every resolution r that passes the signed overload and every
\* sample x in [-1, 1], the stored value is x * scaleFactor truncated toward
\* zero, with scaleFactor = 2^(r-1) - 1, and lies in
\* [-scaleFactor, scaleFactor]; with r = 8, 1.0 gives 127 and -1.0 gives
\* -127.
C15_SignedQuantization ==
    (/\ DacPassed
     /\ stimuli_ = "stub"
     /\ Signed(arg.overload))
    => \A i \in WrittenSlots :
           LET xh == StubSample(i).v IN
           /\ dacBuffer[i].tag = "code"
           /\ ~dacOverflow
           /\ LET scaleFactor == Pow2(dacResolution_ - 1) - 1 IN
              /\ dacBuffer[i].v = TruncateScaled(xh, scaleFactor)
              /\ dacBuffer[i].v >= -scaleFactor
              /\ dacBuffer[i].v <= scaleFactor

\* C16: for every bits in 1..32, after setDacResolution(bits), and after
\* construction with that resolution, getDacResolution() is bits,
\* getDynamicRange() is 2^bits and getScaleFactor() is 2^bits / 2 - 1, with
\* no overflow in the 32-bit fields or in the int32 intermediate of
\* ASG::pow and ASG::round.
C16_ResolutionFields ==
    (/\ op \in {"setDacResolution", "Stim2Dac"}
     /\ arg.dacResolution >= 1
     /\ arg.dacResolution <= 32)
    => /\ dacResolution_ = arg.dacResolution
       /\ ~dacOverflow
       /\ dynamicRange_ = Pow2(arg.dacResolution)
       /\ dynamicRangeToScale_ = Pow2(arg.dacResolution) \div 2 - 1

\* the greatest common divisor of a and b, not both 0
Gcd(a, b) ==
    LET m == IF a > b THEN a ELSE b IN
    CHOOSE d \in 1..m :
        /\ a % d = 0 /\ b % d = 0
        /\ \A e \in 1..m : (a % e = 0 /\ b % e = 0) => e <= d

\* the least common multiple of a > 0 and b > 0
Lcm(a, b) ==
    CHOOSE m \in 1..(a * b) :
        /\ m % a = 0 /\ m % b = 0
        /\ \A n \in 1..(a * b) : (n % a = 0 /\ n % b = 0) => m <= n

\* C17: leastCommonMultiple(a, b) returns 0 when both inputs are 0 and
\* otherwise a / gcd(a, b) * b; it is the least common multiple when both
\* are positive, 0 when either is 0, and symmetric in a and b;
\* leastCommonMultiple(4, 6) is 12 and leastCommonMultiple(0, 5) is 0.
C17_LeastCommonMultiple ==
    lcm.pc = "done" =>
        LET a == lcm.originalNumberA
            b == lcm.originalNumberB
        IN /\ (a = 0 /\ b = 0) => lcm.ret = 0
           /\ (a # 0 \/ b # 0) =>
                  /\ lcm.ret = (a \div Gcd(a, b)) * b
                  /\ lcm.ret = (b \div Gcd(b, a)) * a
           /\ (a = 0 \/ b = 0) => lcm.ret = 0
           /\ (a > 0 /\ b > 0) => lcm.ret = Lcm(a, b)
           /\ (a = 4 /\ b = 6) => lcm.ret = 12
           /\ (a = 0 /\ b = 5) => lcm.ret = 0

\* leastCommonMultiple(4, 6) has returned 12
C17_Witness ==
    /\ lcm.pc = "done"
    /\ lcm.originalNumberA = 4 /\ lcm.originalNumberB = 6
    /\ lcm.result = 2 /\ lcm.ret = 12

\* C19: in every overload, when the call passes the preconditions and no
\* pulled sample carries a mark, sync is -1 on return whatever the caller's
\* sync variable held before.
C19_NoMarkGivesMinusOne ==
    (/\ DacPassed
     /\ stimuli_ = "stub"
     /\ pc = "running"
     /\ MarkedIndices = {})
    => sync = -1

\* C20: for a PureTone with period P > 0 in any position p and n >= 1,
\* Stim2Dac::generate on an int32 buffer of size n, which pulls n single
\* samples, leaves the tone in the position one direct PureTone::generate of
\* size n from p leaves it in, and reports the same sync index.
C20_SinglePullsMatchDirectCall ==
    (/\ DacPassed
     /\ arg.overload = "int32"
     /\ stimuli_ = "tone"
     /\ pre.periodSize_samples > 0
     /\ arg.size >= 1)
    => /\ pc = "running"
       /\ ret = arg.size
       /\ pulls = arg.size
       /\ position_ = NextPosition(pre.position, arg.size,
                                   pre.periodSize_samples)
       /\ sync = SyncLoop(0, arg.size, pre.position, pre.periodSize_samples,
                          FALSE, -1)

\* three single pulls from position 1 of a period of 2: the mark is on the
\* second sample and the tone ends on position 0
C20_Witness ==
    /\ DacPassed /\ arg.overload = "int32" /\ stimuli_ = "tone"
    /\ pre.periodSize_samples = 2 /\ pre.position = 1 /\ arg.size = 3
    /\ pulls = 3 /\ sync = 1 /\ position_ = 0

\* C21: after every successful PureTone::generate call position is below
\* periodSize_samples, whatever the position was before the call, also a
\* position at or past the period that setPosition stored or that a
\* shrinking period left behind.
C21_PositionBelowPeriod ==
    (/\ GeneratePassed
     /\ pc = "running"
     /\ ret = arg.size)
    => position_ < periodSize_samples_

\* C22: the Euclidean loop of leastCommonMultiple terminates for every pair
\* of arguments, including (0, 0), (0, b), (a, 0) and a = b, and never
\* evaluates a modulo by zero: every call that entered the loop returns.
C22_LoopTerminates ==
    /\ [](lcm.pc # "moduloByZero")
    /\ (lcm.pc = "testA") ~> (lcm.pc = "done")

\* leastCommonMultiple(12, 5) has returned after three passes of the loop
C22_Witness ==
    /\ lcm.pc = "done"
    /\ lcm.originalNumberA = 12 /\ lcm.originalNumberB = 5
    /\ lcm.numA = 0 /\ lcm.numB = 1 /\ lcm.result = 1
====
